---- MODULE Spec2Model ----
(***************************************************************************)
(* Model of the Google Drive MCP server (src/main.py): the process-wide    *)
(* token cache, the request dispatcher make_api_request with its single    *)
(* retry on 401, and the tool catalog built on top of it.                  *)
(*                                                                         *)
(* Python values are encoded as strings: "None" is Python's None, "" the   *)
(* empty string, "0"/"False" the falsy number and boolean, "[]"/"{}" the   *)
(* empty list and mapping.  Records that stand for Python objects all have *)
(* one shape per kind so that they can be compared.                        *)
(***************************************************************************)
EXTENDS Integers, Sequences, FiniteSets, TLC

\* ------------------------------------------------------------------ bounds
\* Number of tool calls one behaviour makes.
MaxCalls == 2

\* Concurrent tasks of the host process; the sequential specification runs
\* task 1 alone.
Tasks == {1, 2}
SeqTasks == {1}

\* ------------------------------------------------------------ python values
None == "None"

\* Python truthiness of an encoded value (`if x:`).
Truthy(v) == v \notin {"None", "", "0", "False", "[]", "{}"}

\* `x is not None`
IsNotNone(v) == v # "None"

\* The empty mapping {} (also stands for headers=None, which line 216-217
\* replaces by {} before use).
EmptyDict == [k \in {} |-> ""]

\* d[k] = v on a Python dict
DictSet(d, k, v) == [x \in (DOMAIN d) \cup {k} |-> IF x = k THEN v ELSE d[x]]

\* f"Bearer {access_token}"
Bearer(access_token) == "Bearer " \o access_token

\* -------------------------------------------------------- credential provider
\* Outcomes of get_connection_credentials: requests.get raises (transport),
\* raise_for_status raises (http_error), or response.json() is returned and
\* credentials.get("credentials", {}).get("access_token") evaluates to
\* `token` ("None" when the field is missing or null).  requests.get is
\* called without a timeout (line 44): a provider that accepts the
\* connection and never answers leaves the call waiting (no_response).
Tokens == {"tokA", "tokB"}

ProviderOutcomes ==
    {[kind |-> "transport", token |-> None],
     [kind |-> "http_error", token |-> None],
     [kind |-> "no_response", token |-> None]}
    \cup {[kind |-> "json", token |-> tk] : tk \in Tokens \cup {None, ""}}

\* The four settings get_connection_credentials reads from the environment
\* (lines 32-35); os.environ.get gives None for one that is not set.
Settings ==
    {"NANGO_CONNECTION_ID", "NANGO_INTEGRATION_ID", "NANGO_BASE_URL",
     "NANGO_SECRET_KEY"}

\* ------------------------------------------------------------------ upstream
\* Final HTTP statuses the upstream can answer with.
Statuses == {101, 200, 304, 401, 500}

\* response.reason
Reason(status) ==
    CASE status = 101 -> "Switching Protocols"
      [] status = 200 -> "OK"
      [] status = 304 -> "Not Modified"
      [] status = 401 -> "Unauthorized"
      [] status = 500 -> "Internal Server Error"
      [] OTHER -> ""

\* Response bodies (response.text).  In an object body, `items` stands for
\* the list key the called catalog function reads ("files", "comments", ...).
Bodies ==
    {"", "{}", "{id:abc123,name:report.pdf}",
     "{items:[good],nextPageToken:p2}", "{items:[good,bad]}", "{items:null}",
     "{done:notbool}", "[1,2]", "7", "null", "<html>"}

UpstreamOutcomes ==
    {[kind |-> "transport", status |-> 0, body |-> ""]}
    \cup {[kind |-> "http", status |-> s, body |-> b] : s \in Statuses, b \in Bodies}

\* A JSON value as the catalog sees it: its Python type, whether a mapping is
\* empty, what it holds under the list key, under nextPageToken, and whether
\* its fields validate as an Operation; src is the text it came from.
JsonValue(type, empty, hasItems, itemsIsList, items, next, opOk, src) ==
    [type |-> type, empty |-> empty, hasItems |-> hasItems,
     itemsIsList |-> itemsIsList, items |-> items, next |-> next,
     opOk |-> opOk, src |-> src]

NoneData == JsonValue("None", TRUE, FALSE, FALSE, <<>>, None, TRUE, "")

\* response.json(): the parsed value, or type "invalid" when json() raises.
ParseJson(text) ==
    CASE text = "{}" ->
           JsonValue("dict", TRUE, FALSE, FALSE, <<>>, None, TRUE, text)
      [] text = "{id:abc123,name:report.pdf}" ->
           JsonValue("dict", FALSE, FALSE, FALSE, <<>>, None, TRUE, text)
      [] text = "{items:[good],nextPageToken:p2}" ->
           JsonValue("dict", FALSE, TRUE, TRUE, <<"good">>, "p2", TRUE, text)
      [] text = "{items:[good,bad]}" ->
           JsonValue("dict", FALSE, TRUE, TRUE, <<"good", "bad">>, None, TRUE, text)
      [] text = "{items:null}" ->
           JsonValue("dict", FALSE, TRUE, FALSE, <<>>, None, TRUE, text)
      [] text = "{done:notbool}" ->
           JsonValue("dict", FALSE, FALSE, FALSE, <<>>, None, FALSE, text)
      [] text = "[1,2]" ->
           JsonValue("list", FALSE, FALSE, FALSE, <<>>, None, TRUE, text)
      [] text = "7" ->
           JsonValue("number", FALSE, FALSE, FALSE, <<>>, None, TRUE, text)
      [] text = "null" -> NoneData
      [] OTHER ->
           JsonValue("invalid", FALSE, FALSE, FALSE, <<>>, None, TRUE, text)

\* {"content": response.text}
ContentWrapper(text) ==
    JsonValue("dict", FALSE, FALSE, FALSE, <<>>, None, TRUE, "content=" \o text)

\* response.ok: raise_for_status raises for 400..599 only.
ResponseOk(status) == ~(400 <= status /\ status < 600)

\* ----------------------------------------------------------------- envelope
NoError == [present |-> FALSE, prefix |-> "", code |-> 0, detail |-> ""]
ErrorText(prefix, code, detail) ==
    [present |-> TRUE, prefix |-> prefix, code |-> code, detail |-> detail]

\* What a call hands back: an APIResponse (kind "envelope"), a typed wrapper
\* (kind "wrapper": items and continuation token; kind "operation"), or an
\* exception that leaves the function (kind "raised", exc names it).
Outcome(kind, success, status_code, data, error, exc, items, next) ==
    [kind |-> kind, success |-> success, status_code |-> status_code,
     data |-> data, error |-> error, exc |-> exc, items |-> items,
     next |-> next]

APIResponse(success, status_code, data, error) ==
    Outcome("envelope", success, status_code, data, error, "", <<>>, None)

Raised(exc) == Outcome("raised", FALSE, 0, NoneData, NoError, exc, <<>>, None)

NoResult == Outcome("none", FALSE, 0, NoneData, NoError, "", <<>>, None)

\* A list wrapper (FileList, CommentList, ...) and its default.
ListWrapper(items, next) ==
    Outcome("wrapper", FALSE, 0, NoneData, NoError, "", items, next)

EmptyWrapper == ListWrapper(<<>>, None)

\* Operation(**data) and the default Operation().
OperationOf(data) == Outcome("operation", FALSE, 0, data, NoError, "", <<>>, None)

EmptyOperation == OperationOf(NoneData)

\* pydantic validation of APIResponse.data: Optional[Dict[str, Any]]
DataValidates(data) == data.type \in {"None", "dict"}

\* Lines 261-273: normalise the final response into an APIResponse; the
\* constructor raises ValidationError when data is no mapping.
Normalize(status, body) ==
    LET parsed == ParseJson(body)
        response_data ==
            IF body = "" THEN NoneData
            ELSE IF parsed.type = "invalid" THEN ContentWrapper(body)
            ELSE parsed
    IN  IF DataValidates(response_data)
        THEN APIResponse(ResponseOk(status), status, response_data,
                         IF ResponseOk(status) THEN NoError
                         ELSE ErrorText("HTTP", status, Reason(status)))
        ELSE Raised("ValidationError")

\* ------------------------------------------------------------- tool catalog
\* One entry per catalog function: the HTTP method it passes, how it shapes
\* the result (the Envelope unchanged, a list wrapper, an Operation, or the
\* attribute access of line 957), whether it builds its own Authorization
\* header from an access_token argument, the required arguments it always
\* forwards, and its optional arguments with the guard that forwards them:
\* "truthy" is `if x:`, "notnone" is `if x is not None:`.
Opt(arg, key, dest, guard, type) ==
    [arg |-> arg, key |-> key, dest |-> dest, guard |-> guard, type |-> type]

Req(arg, key, dest) == [arg |-> arg, key |-> key, dest |-> dest]

\* lines 284-292
about_get ==
    [name |-> "about_get", method |-> "GET", wrapper |-> "envelope",
     usesToken |-> FALSE, hasNext |-> FALSE,
     req |-> <<>>,
     opts |-> <<Opt("fields", "fields", "params", "truthy", "str")>>]

\* lines 296-302
accessproposals_get ==
    [name |-> "accessproposals_get", method |-> "GET", wrapper |-> "envelope",
     usesToken |-> FALSE, hasNext |-> FALSE,
     req |-> <<>>,
     opts |-> <<>>]

\* lines 305-326
accessproposals_list ==
    [name |-> "accessproposals_list", method |-> "GET", wrapper |-> "list",
     usesToken |-> FALSE, hasNext |-> TRUE,
     req |-> <<>>,
     opts |-> <<Opt("page_token", "pageToken", "params", "truthy", "str"),
               Opt("page_size", "pageSize", "params", "truthy", "int")>>]

\* lines 329-341
accessproposals_resolve ==
    [name |-> "accessproposals_resolve", method |-> "POST", wrapper |-> "envelope",
     usesToken |-> FALSE, hasNext |-> FALSE,
     req |-> <<Req("action", "action", "json")>>,
     opts |-> <<Opt("send_notification", "sendNotification", "json", "notnone", "bool")>>]

\* lines 345-350
apps_get ==
    [name |-> "apps_get", method |-> "GET", wrapper |-> "envelope",
     usesToken |-> FALSE, hasNext |-> FALSE,
     req |-> <<>>,
     opts |-> <<>>]

\* lines 353-374
apps_list ==
    [name |-> "apps_list", method |-> "GET", wrapper |-> "list",
     usesToken |-> FALSE, hasNext |-> FALSE,
     req |-> <<>>,
     opts |-> <<Opt("app_filter_extensions", "appFilterExtensions", "params", "truthy", "str"),
               Opt("app_filter_mime_types", "appFilterMimeTypes", "params", "truthy", "str"),
               Opt("language_code", "languageCode", "params", "truthy", "str")>>]

\* lines 378-389
changes_get_start_page_token ==
    [name |-> "changes_get_start_page_token", method |-> "GET", wrapper |-> "envelope",
     usesToken |-> FALSE, hasNext |-> FALSE,
     req |-> <<>>,
     opts |-> <<Opt("drive_id", "driveId", "params", "truthy", "str"),
               Opt("supports_all_drives", "supportsAllDrives", "params", "notnone", "bool")>>]

\* lines 392-432
changes_list ==
    [name |-> "changes_list", method |-> "GET", wrapper |-> "list",
     usesToken |-> FALSE, hasNext |-> TRUE,
     req |-> <<Req("page_token", "pageToken", "params")>>,
     opts |-> <<Opt("drive_id", "driveId", "params", "truthy", "str"),
               Opt("include_corpus_removals", "includeCorpusRemovals", "params", "notnone", "bool"),
               Opt("include_items_from_all_drives", "includeItemsFromAllDrives", "params", "notnone", "bool"),
               Opt("include_removed", "includeRemoved", "params", "notnone", "bool"),
               Opt("page_size", "pageSize", "params", "truthy", "int"),
               Opt("restrict_to_my_drive", "restrictToMyDrive", "params", "notnone", "bool"),
               Opt("spaces", "spaces", "params", "truthy", "str"),
               Opt("supports_all_drives", "supportsAllDrives", "params", "notnone", "bool")>>]

\* lines 435-475
changes_watch ==
    [name |-> "changes_watch", method |-> "POST", wrapper |-> "envelope",
     usesToken |-> FALSE, hasNext |-> FALSE,
     req |-> <<Req("page_token", "pageToken", "params"),
              Req("channel_id", "id", "json"),
              Req("channel_type", "type", "json"),
              Req("address", "address", "json")>>,
     opts |-> <<Opt("drive_id", "driveId", "params", "truthy", "str"),
               Opt("include_corpus_removals", "includeCorpusRemovals", "params", "notnone", "bool"),
               Opt("include_items_from_all_drives", "includeItemsFromAllDrives", "params", "notnone", "bool"),
               Opt("include_removed", "includeRemoved", "params", "notnone", "bool"),
               Opt("page_size", "pageSize", "params", "truthy", "int"),
               Opt("restrict_to_my_drive", "restrictToMyDrive", "params", "notnone", "bool"),
               Opt("spaces", "spaces", "params", "truthy", "str"),
               Opt("supports_all_drives", "supportsAllDrives", "params", "notnone", "bool")>>]

\* lines 479-489
channels_stop ==
    [name |-> "channels_stop", method |-> "POST", wrapper |-> "envelope",
     usesToken |-> FALSE, hasNext |-> FALSE,
     req |-> <<Req("channel_id", "id", "json"),
              Req("resource_id", "resourceId", "json")>>,
     opts |-> <<>>]

\* lines 493-507
comments_create ==
    [name |-> "comments_create", method |-> "POST", wrapper |-> "envelope",
     usesToken |-> FALSE, hasNext |-> FALSE,
     req |-> <<Req("content", "content", "json")>>,
     opts |-> <<Opt("anchor", "anchor", "json", "truthy", "str"),
               Opt("quoted_file_content", "quotedFileContent", "json", "truthy", "dict")>>]

\* lines 510-516
comments_delete ==
    [name |-> "comments_delete", method |-> "DELETE", wrapper |-> "envelope",
     usesToken |-> FALSE, hasNext |-> FALSE,
     req |-> <<>>,
     opts |-> <<>>]

\* lines 519-530
comments_get ==
    [name |-> "comments_get", method |-> "GET", wrapper |-> "envelope",
     usesToken |-> FALSE, hasNext |-> FALSE,
     req |-> <<>>,
     opts |-> <<Opt("include_deleted", "includeDeleted", "params", "notnone", "bool")>>]

\* lines 533-560
comments_list ==
    [name |-> "comments_list", method |-> "GET", wrapper |-> "list",
     usesToken |-> FALSE, hasNext |-> TRUE,
     req |-> <<>>,
     opts |-> <<Opt("include_deleted", "includeDeleted", "params", "notnone", "bool"),
               Opt("page_size", "pageSize", "params", "truthy", "int"),
               Opt("page_token", "pageToken", "params", "truthy", "str"),
               Opt("start_modified_time", "startModifiedTime", "params", "truthy", "str")>>]

\* lines 563-572
comments_update ==
    [name |-> "comments_update", method |-> "PATCH", wrapper |-> "envelope",
     usesToken |-> FALSE, hasNext |-> FALSE,
     req |-> <<Req("content", "content", "json")>>,
     opts |-> <<>>]

\* lines 576-587
drives_create ==
    [name |-> "drives_create", method |-> "POST", wrapper |-> "envelope",
     usesToken |-> FALSE, hasNext |-> FALSE,
     req |-> <<Req("request_id", "requestId", "params"),
              Req("name", "name", "json")>>,
     opts |-> <<Opt("hidden", "hidden", "json", "notnone", "bool")>>]

\* lines 590-603
drives_delete ==
    [name |-> "drives_delete", method |-> "DELETE", wrapper |-> "envelope",
     usesToken |-> FALSE, hasNext |-> FALSE,
     req |-> <<>>,
     opts |-> <<Opt("use_domain_admin_access", "useDomainAdminAccess", "params", "notnone", "bool"),
               Opt("allow_item_deletion", "allowItemDeletion", "params", "notnone", "bool")>>]

\* lines 606-616
drives_get ==
    [name |-> "drives_get", method |-> "GET", wrapper |-> "envelope",
     usesToken |-> FALSE, hasNext |-> FALSE,
     req |-> <<>>,
     opts |-> <<Opt("use_domain_admin_access", "useDomainAdminAccess", "params", "notnone", "bool")>>]

\* lines 619-624
drives_hide ==
    [name |-> "drives_hide", method |-> "POST", wrapper |-> "envelope",
     usesToken |-> FALSE, hasNext |-> FALSE,
     req |-> <<>>,
     opts |-> <<>>]

\* lines 627-652
drives_list ==
    [name |-> "drives_list", method |-> "GET", wrapper |-> "list",
     usesToken |-> FALSE, hasNext |-> TRUE,
     req |-> <<>>,
     opts |-> <<Opt("page_size", "pageSize", "params", "truthy", "int"),
               Opt("page_token", "pageToken", "params", "truthy", "str"),
               Opt("q", "q", "params", "truthy", "str"),
               Opt("use_domain_admin_access", "useDomainAdminAccess", "params", "notnone", "bool")>>]

\* lines 655-660
drives_unhide ==
    [name |-> "drives_unhide", method |-> "POST", wrapper |-> "envelope",
     usesToken |-> FALSE, hasNext |-> FALSE,
     req |-> <<>>,
     opts |-> <<>>]

\* lines 663-678
drives_update ==
    [name |-> "drives_update", method |-> "PATCH", wrapper |-> "envelope",
     usesToken |-> FALSE, hasNext |-> FALSE,
     req |-> <<>>,
     opts |-> <<Opt("use_domain_admin_access", "useDomainAdminAccess", "params", "notnone", "bool"),
               Opt("name", "name", "json", "truthy", "str")>>]

\* lines 682-709
files_copy ==
    [name |-> "files_copy", method |-> "POST", wrapper |-> "envelope",
     usesToken |-> FALSE, hasNext |-> FALSE,
     req |-> <<>>,
     opts |-> <<Opt("ignore_default_visibility", "ignoreDefaultVisibility", "params", "notnone", "bool"),
               Opt("keep_revision_forever", "keepRevisionForever", "params", "notnone", "bool"),
               Opt("ocr_language", "ocrLanguage", "params", "truthy", "str"),
               Opt("supports_all_drives", "supportsAllDrives", "params", "notnone", "bool"),
               Opt("name", "name", "json", "truthy", "str"),
               Opt("parents", "parents", "json", "truthy", "list")>>]

\* lines 712-741
files_create ==
    [name |-> "files_create", method |-> "POST", wrapper |-> "envelope",
     usesToken |-> FALSE, hasNext |-> FALSE,
     req |-> <<Req("name", "name", "json")>>,
     opts |-> <<Opt("ignore_default_visibility", "ignoreDefaultVisibility", "params", "notnone", "bool"),
               Opt("keep_revision_forever", "keepRevisionForever", "params", "notnone", "bool"),
               Opt("ocr_language", "ocrLanguage", "params", "truthy", "str"),
               Opt("supports_all_drives", "supportsAllDrives", "params", "notnone", "bool"),
               Opt("use_content_as_indexable_text", "useContentAsIndexableText", "params", "notnone", "bool"),
               Opt("parents", "parents", "json", "truthy", "list"),
               Opt("mime_type", "mimeType", "json", "truthy", "str")>>]

\* lines 744-754
files_delete ==
    [name |-> "files_delete", method |-> "DELETE", wrapper |-> "envelope",
     usesToken |-> FALSE, hasNext |-> FALSE,
     req |-> <<>>,
     opts |-> <<Opt("supports_all_drives", "supportsAllDrives", "params", "notnone", "bool")>>]

\* lines 757-770
files_download ==
    [name |-> "files_download", method |-> "POST", wrapper |-> "envelope",
     usesToken |-> FALSE, hasNext |-> FALSE,
     req |-> <<>>,
     opts |-> <<Opt("mime_type", "mimeType", "params", "truthy", "str"),
               Opt("revision_id", "revisionId", "params", "truthy", "str")>>]

\* lines 773-781
files_empty_trash ==
    [name |-> "files_empty_trash", method |-> "DELETE", wrapper |-> "envelope",
     usesToken |-> FALSE, hasNext |-> FALSE,
     req |-> <<>>,
     opts |-> <<Opt("drive_id", "driveId", "params", "truthy", "str")>>]

\* lines 784-792
files_export ==
    [name |-> "files_export", method |-> "GET", wrapper |-> "envelope",
     usesToken |-> FALSE, hasNext |-> FALSE,
     req |-> <<Req("mime_type", "mimeType", "params")>>,
     opts |-> <<>>]

\* lines 795-809
files_generate_ids ==
    [name |-> "files_generate_ids", method |-> "GET", wrapper |-> "envelope",
     usesToken |-> FALSE, hasNext |-> FALSE,
     req |-> <<>>,
     opts |-> <<Opt("count", "count", "params", "truthy", "int"),
               Opt("space", "space", "params", "truthy", "str"),
               Opt("type", "type", "params", "truthy", "str")>>]

\* lines 812-828
files_get ==
    [name |-> "files_get", method |-> "GET", wrapper |-> "envelope",
     usesToken |-> FALSE, hasNext |-> FALSE,
     req |-> <<>>,
     opts |-> <<Opt("acknowledge_abuse", "acknowledgeAbuse", "params", "notnone", "bool"),
               Opt("supports_all_drives", "supportsAllDrives", "params", "notnone", "bool"),
               Opt("fields", "fields", "params", "truthy", "str")>>]

\* lines 831-872
files_list ==
    [name |-> "files_list", method |-> "GET", wrapper |-> "list",
     usesToken |-> FALSE, hasNext |-> TRUE,
     req |-> <<>>,
     opts |-> <<Opt("corpora", "corpora", "params", "truthy", "str"),
               Opt("drive_id", "driveId", "params", "truthy", "str"),
               Opt("include_items_from_all_drives", "includeItemsFromAllDrives", "params", "notnone", "bool"),
               Opt("order_by", "orderBy", "params", "truthy", "str"),
               Opt("page_size", "pageSize", "params", "truthy", "int"),
               Opt("page_token", "pageToken", "params", "truthy", "str"),
               Opt("q", "q", "params", "truthy", "str"),
               Opt("spaces", "spaces", "params", "truthy", "str"),
               Opt("supports_all_drives", "supportsAllDrives", "params", "notnone", "bool")>>]

\* lines 875-888
files_list_labels ==
    [name |-> "files_list_labels", method |-> "GET", wrapper |-> "envelope",
     usesToken |-> FALSE, hasNext |-> FALSE,
     req |-> <<>>,
     opts |-> <<Opt("max_results", "maxResults", "params", "truthy", "int"),
               Opt("page_token", "pageToken", "params", "truthy", "str")>>]

\* lines 891-899
files_modify_labels ==
    [name |-> "files_modify_labels", method |-> "POST", wrapper |-> "envelope",
     usesToken |-> FALSE, hasNext |-> FALSE,
     req |-> <<Req("label_modifications", "labelModifications", "json")>>,
     opts |-> <<>>]

\* lines 902-932
files_update ==
    [name |-> "files_update", method |-> "PATCH", wrapper |-> "envelope",
     usesToken |-> FALSE, hasNext |-> FALSE,
     req |-> <<>>,
     opts |-> <<Opt("add_parents", "addParents", "params", "truthy", "str"),
               Opt("remove_parents", "removeParents", "params", "truthy", "str"),
               Opt("keep_revision_forever", "keepRevisionForever", "params", "notnone", "bool"),
               Opt("ocr_language", "ocrLanguage", "params", "truthy", "str"),
               Opt("supports_all_drives", "supportsAllDrives", "params", "notnone", "bool"),
               Opt("use_content_as_indexable_text", "useContentAsIndexableText", "params", "notnone", "bool"),
               Opt("name", "name", "json", "truthy", "str")>>]

\* lines 935-957
files_watch ==
    [name |-> "files_watch", method |-> "POST", wrapper |-> "tool_attr",
     usesToken |-> FALSE, hasNext |-> FALSE,
     req |-> <<Req("channel_id", "id", "json"),
              Req("channel_type", "type", "json"),
              Req("address", "address", "json")>>,
     opts |-> <<Opt("supports_all_drives", "supportsAllDrives", "params", "notnone", "bool"),
               Opt("acknowledge_abuse", "acknowledgeAbuse", "params", "notnone", "bool")>>]

\* lines 958-968
files_modify_labels_2 ==
    [name |-> "files_modify_labels_2", method |-> "POST", wrapper |-> "envelope",
     usesToken |-> TRUE, hasNext |-> FALSE,
     req |-> <<Req("label_modifications", "labelModifications", "json")>>,
     opts |-> <<>>]

\* lines 971-1003
files_update_2 ==
    [name |-> "files_update_2", method |-> "PATCH", wrapper |-> "envelope",
     usesToken |-> TRUE, hasNext |-> FALSE,
     req |-> <<>>,
     opts |-> <<Opt("add_parents", "addParents", "params", "truthy", "str"),
               Opt("remove_parents", "removeParents", "params", "truthy", "str"),
               Opt("keep_revision_forever", "keepRevisionForever", "params", "notnone", "bool"),
               Opt("ocr_language", "ocrLanguage", "params", "truthy", "str"),
               Opt("supports_all_drives", "supportsAllDrives", "params", "notnone", "bool"),
               Opt("use_content_as_indexable_text", "useContentAsIndexableText", "params", "notnone", "bool"),
               Opt("name", "name", "json", "truthy", "str")>>]

\* lines 1006-1030
files_watch_2 ==
    [name |-> "files_watch_2", method |-> "POST", wrapper |-> "envelope",
     usesToken |-> TRUE, hasNext |-> FALSE,
     req |-> <<Req("channel_id", "id", "json"),
              Req("channel_type", "type", "json"),
              Req("address", "address", "json")>>,
     opts |-> <<Opt("supports_all_drives", "supportsAllDrives", "params", "notnone", "bool"),
               Opt("acknowledge_abuse", "acknowledgeAbuse", "params", "notnone", "bool")>>]

\* lines 1034-1045
operations_get ==
    [name |-> "operations_get", method |-> "GET", wrapper |-> "operation",
     usesToken |-> FALSE, hasNext |-> FALSE,
     req |-> <<>>,
     opts |-> <<>>]

\* lines 1049-1087
permissions_create ==
    [name |-> "permissions_create", method |-> "POST", wrapper |-> "envelope",
     usesToken |-> FALSE, hasNext |-> FALSE,
     req |-> <<Req("role", "role", "json"), Req("type", "type", "json")>>,
     opts |-> <<Opt("email_message", "emailMessage", "params", "truthy", "str"),
               Opt("move_to_new_owners_root", "moveToNewOwnersRoot", "params", "notnone", "bool"),
               Opt("send_notification_email", "sendNotificationEmail", "params", "notnone", "bool"),
               Opt("supports_all_drives", "supportsAllDrives", "params", "notnone", "bool"),
               Opt("transfer_ownership", "transferOwnership", "params", "notnone", "bool"),
               Opt("use_domain_admin_access", "useDomainAdminAccess", "params", "notnone", "bool"),
               Opt("email_address", "emailAddress", "json", "truthy", "str"),
               Opt("domain", "domain", "json", "truthy", "str")>>]

\* lines 1090-1104
permissions_delete ==
    [name |-> "permissions_delete", method |-> "DELETE", wrapper |-> "envelope",
     usesToken |-> FALSE, hasNext |-> FALSE,
     req |-> <<>>,
     opts |-> <<Opt("supports_all_drives", "supportsAllDrives", "params", "notnone", "bool"),
               Opt("use_domain_admin_access", "useDomainAdminAccess", "params", "notnone", "bool")>>]

\* lines 1107-1121
permissions_get ==
    [name |-> "permissions_get", method |-> "GET", wrapper |-> "envelope",
     usesToken |-> FALSE, hasNext |-> FALSE,
     req |-> <<>>,
     opts |-> <<Opt("supports_all_drives", "supportsAllDrives", "params", "notnone", "bool"),
               Opt("use_domain_admin_access", "useDomainAdminAccess", "params", "notnone", "bool")>>]

\* lines 1124-1151
permissions_list ==
    [name |-> "permissions_list", method |-> "GET", wrapper |-> "list",
     usesToken |-> FALSE, hasNext |-> TRUE,
     req |-> <<>>,
     opts |-> <<Opt("page_size", "pageSize", "params", "truthy", "int"),
               Opt("page_token", "pageToken", "params", "truthy", "str"),
               Opt("supports_all_drives", "supportsAllDrives", "params", "notnone", "bool"),
               Opt("use_domain_admin_access", "useDomainAdminAccess", "params", "notnone", "bool")>>]

\* lines 1154-1179
permissions_update ==
    [name |-> "permissions_update", method |-> "PATCH", wrapper |-> "envelope",
     usesToken |-> FALSE, hasNext |-> FALSE,
     req |-> <<>>,
     opts |-> <<Opt("remove_expiration", "removeExpiration", "params", "notnone", "bool"),
               Opt("supports_all_drives", "supportsAllDrives", "params", "notnone", "bool"),
               Opt("transfer_ownership", "transferOwnership", "params", "notnone", "bool"),
               Opt("use_domain_admin_access", "useDomainAdminAccess", "params", "notnone", "bool"),
               Opt("role", "role", "json", "truthy", "str")>>]

\* lines 1183-1192
replies_create ==
    [name |-> "replies_create", method |-> "POST", wrapper |-> "envelope",
     usesToken |-> FALSE, hasNext |-> FALSE,
     req |-> <<Req("content", "content", "json")>>,
     opts |-> <<>>]

\* lines 1195-1202
replies_delete ==
    [name |-> "replies_delete", method |-> "DELETE", wrapper |-> "envelope",
     usesToken |-> FALSE, hasNext |-> FALSE,
     req |-> <<>>,
     opts |-> <<>>]

\* lines 1205-1217
replies_get ==
    [name |-> "replies_get", method |-> "GET", wrapper |-> "envelope",
     usesToken |-> FALSE, hasNext |-> FALSE,
     req |-> <<>>,
     opts |-> <<Opt("include_deleted", "includeDeleted", "params", "notnone", "bool")>>]

\* lines 1220-1245
replies_list ==
    [name |-> "replies_list", method |-> "GET", wrapper |-> "list",
     usesToken |-> FALSE, hasNext |-> TRUE,
     req |-> <<>>,
     opts |-> <<Opt("include_deleted", "includeDeleted", "params", "notnone", "bool"),
               Opt("page_size", "pageSize", "params", "truthy", "int"),
               Opt("page_token", "pageToken", "params", "truthy", "str")>>]

\* lines 1248-1258
replies_update ==
    [name |-> "replies_update", method |-> "PATCH", wrapper |-> "envelope",
     usesToken |-> FALSE, hasNext |-> FALSE,
     req |-> <<Req("content", "content", "json")>>,
     opts |-> <<>>]

\* lines 1262-1268
revisions_delete ==
    [name |-> "revisions_delete", method |-> "DELETE", wrapper |-> "envelope",
     usesToken |-> FALSE, hasNext |-> FALSE,
     req |-> <<>>,
     opts |-> <<>>]

\* lines 1271-1282
revisions_get ==
    [name |-> "revisions_get", method |-> "GET", wrapper |-> "envelope",
     usesToken |-> FALSE, hasNext |-> FALSE,
     req |-> <<>>,
     opts |-> <<Opt("acknowledge_abuse", "acknowledgeAbuse", "params", "notnone", "bool")>>]

\* lines 1285-1306
revisions_list ==
    [name |-> "revisions_list", method |-> "GET", wrapper |-> "list",
     usesToken |-> FALSE, hasNext |-> TRUE,
     req |-> <<>>,
     opts |-> <<Opt("page_size", "pageSize", "params", "truthy", "int"),
               Opt("page_token", "pageToken", "params", "truthy", "str")>>]

\* lines 1309-1326
revisions_update ==
    [name |-> "revisions_update", method |-> "PATCH", wrapper |-> "envelope",
     usesToken |-> FALSE, hasNext |-> FALSE,
     req |-> <<>>,
     opts |-> <<Opt("keep_forever", "keepForever", "json", "notnone", "bool"),
               Opt("published", "published", "json", "notnone", "bool"),
               Opt("published_outside_domain", "publishedOutsideDomain", "json", "notnone", "bool")>>]

Catalog ==
    {about_get,
     accessproposals_get,
     accessproposals_list,
     accessproposals_resolve,
     apps_get,
     apps_list,
     changes_get_start_page_token,
     changes_list,
     changes_watch,
     channels_stop,
     comments_create,
     comments_delete,
     comments_get,
     comments_list,
     comments_update,
     drives_create,
     drives_delete,
     drives_get,
     drives_hide,
     drives_list,
     drives_unhide,
     drives_update,
     files_copy,
     files_create,
     files_delete,
     files_download,
     files_empty_trash,
     files_export,
     files_generate_ids,
     files_get,
     files_list,
     files_list_labels,
     files_modify_labels,
     files_update,
     files_watch,
     files_modify_labels_2,
     files_update_2,
     files_watch_2,
     operations_get,
     permissions_create,
     permissions_delete,
     permissions_get,
     permissions_list,
     permissions_update,
     replies_create,
     replies_delete,
     replies_get,
     replies_list,
     replies_update,
     revisions_delete,
     revisions_get,
     revisions_list,
     revisions_update}

ToolByName(n) == CHOOSE c \in Catalog : c.name = n

\* The catalog functions that reshape the Envelope into a list wrapper.
ListTools == {c \in Catalog : c.wrapper = "list"}

\* ------------------------------------------------------------ tool arguments
\* What a caller passes for an optional argument: nothing (None, the
\* default), the falsy value of its type, or a truthy one.
ArgChoices == {"unset", "falsy", "truthy"}

ValueOf(type, choice) ==
    CASE choice = "unset" -> None
      [] choice = "falsy" ->
           (CASE type = "bool" -> "False"
              [] type = "int" -> "0"
              [] type = "list" -> "[]"
              [] type = "dict" -> "{}"
              [] OTHER -> "")
      [] OTHER ->
           (CASE type = "bool" -> "True"
              [] type = "int" -> "5"
              [] type = "list" -> "[p1]"
              [] type = "dict" -> "{k:v}"
              [] OTHER -> "a")

OptIdx(tool) == 1..Len(tool.opts)
OptArgs(tool) == {tool.opts[i].arg : i \in OptIdx(tool)}
OptOf(tool, arg) == tool.opts[CHOOSE i \in OptIdx(tool) : tool.opts[i].arg = arg]

\* Every assignment of the optional arguments of a catalog function.
ArgSets(tool) ==
    {[n \in OptArgs(tool) |-> ValueOf(OptOf(tool, n).type, c[n])] :
        c \in [OptArgs(tool) -> ArgChoices]}

\* The call that leaves every optional argument at its default.
DefaultArgs(tool) == [n \in OptArgs(tool) |-> None]

\* Mutant of Forwarded: the guard is missing, the key is always written.
ForwardedUnguarded(opt, v) == TRUE

\* The guard in front of `params[key] = x` / `json_data[key] = x`.
Forwarded(opt, v) ==
    IF opt.guard = "truthy" THEN Truthy(v) ELSE IsNotNone(v)

\* The params / json_data mapping a catalog function builds from its
\* arguments: the required entries of the dict literal, then one key per
\* optional argument whose guard passes.
BuildDict(tool, a, dest) ==
    LET reqIdx == {i \in 1..Len(tool.req) : tool.req[i].dest = dest}
        optIdx == {i \in OptIdx(tool) :
                     /\ tool.opts[i].dest = dest
                     /\ Forwarded(tool.opts[i], a[tool.opts[i].arg])}
        keys == {tool.req[i].key : i \in reqIdx}
                \cup {tool.opts[i].key : i \in optIdx}
    IN  [k \in keys |->
           IF \E i \in optIdx : tool.opts[i].key = k
           THEN a[tool.opts[CHOOSE i \in optIdx : tool.opts[i].key = k].arg]
           ELSE tool.req[CHOOSE i \in reqIdx : tool.req[i].key = k].arg]

\* headers = {"Authorization": f"Bearer {access_token}"} in the functions
\* that take an access_token argument; no headers argument otherwise.
BuildHeaders(tool) ==
    IF tool.usesToken
    THEN [k \in {"Authorization"} |-> Bearer("callerTok")]
    ELSE EmptyDict

\* The arguments a catalog function hands to make_api_request.
Request(tool, a) ==
    [tool |-> tool.name, method |-> tool.method,
     params |-> BuildDict(tool, a, "params"),
     json |-> BuildDict(tool, a, "json"),
     headers |-> BuildHeaders(tool),
     args |-> a]

NoRequest ==
    [tool |-> "", method |-> "", params |-> EmptyDict, json |-> EmptyDict,
     headers |-> EmptyDict, args |-> EmptyDict]

\* retry_auth, a parameter no caller of the repository overrides.
retry_auth == TRUE

\* `response.success and response.data`
HasPayload(response) ==
    /\ response.success
    /\ response.data.type = "dict"
    /\ ~response.data.empty

\* Mutant of ListWrap: the test is `if response.data:` alone, so the body of
\* a failed call is reshaped too.
ListWrapIgnoringSuccess(tool, response) ==
    IF response.data.type = "dict" /\ ~response.data.empty
    THEN IF response.data.hasItems /\ ~response.data.itemsIsList
         THEN Raised("TypeError")
         ELSE IF \E i \in 1..Len(response.data.items) :
                    response.data.items[i] = "bad"
         THEN Raised("ValidationError")
         ELSE ListWrapper(response.data.items,
                          IF tool.hasNext THEN response.data.next ELSE None)
    ELSE EmptyWrapper

\* [Item(**item) for item in response.data.get(key, [])] and the wrapper
\* built from it: iterating a value that is no list raises TypeError, an item
\* whose fields do not validate raises ValidationError.
ListWrap(tool, response) ==
    IF HasPayload(response)
    THEN IF response.data.hasItems /\ ~response.data.itemsIsList
         THEN Raised("TypeError")
         ELSE IF \E i \in 1..Len(response.data.items) :
                    response.data.items[i] = "bad"
         THEN Raised("ValidationError")
         ELSE ListWrapper(response.data.items,
                          IF tool.hasNext THEN response.data.next ELSE None)
    ELSE EmptyWrapper

\* operations_get, lines 1042-1045
OperationWrap(response) ==
    IF HasPayload(response)
    THEN IF response.data.opOk THEN OperationOf(response.data)
         ELSE Raised("ValidationError")
    ELSE EmptyOperation

\* What the catalog function returns once make_api_request has handed back
\* `response`; an exception out of make_api_request passes through, no
\* catalog function catches anything.
ToolResult(tool, response) ==
    IF response.kind = "raised" THEN response
    ELSE CASE tool.wrapper = "list" -> ListWrap(tool, response)
           [] tool.wrapper = "operation" -> OperationWrap(response)
           [] tool.wrapper = "tool_attr" -> Raised("AttributeError")
           [] OTHER -> response

\* ------------------------------------------------------------------- state
VARIABLES
    cache,          \* _cached_access_token
    providerCalls,  \* requests sent to the credential provider so far
    started,        \* tool calls started so far
    callLog,        \* one summary per finished tool call, in order
    pc,             \* pc[t]: where task t stands
    cur,            \* cur[t]: the request the catalog function handed over
    ctx,            \* ctx[t]: "get" (line 215) or "refresh" (line 241)
    headers,        \* headers[t]: the headers mapping of the call
    credentials,    \* credentials[t]: token field of the provider's answer
    response,       \* response[t]: the last upstream response
    reqs,           \* reqs[t]: upstream requests of this call, with outcome
    prov,           \* prov[t]: provider outcomes of this call
    clears,         \* clears[t]: refresh_access_token calls of this call
    env,            \* env[t]: what make_api_request returned or raised
    result,         \* result[t]: what the catalog function returned or raised
    world,          \* the environment: settings, provider and upstream
    issued,         \* token values completed provider calls have returned
    entry           \* entry[t]: the cache as line 53 found it in the call
                    \* of get_access_token from line 215

vars == <<cache, providerCalls, started, callLog, pc, cur, ctx, headers,
          credentials, response, reqs, prov, clears, env, result,
          world, issued, entry>>

NoResponse == [kind |-> "none", status |-> 0, body |-> ""]

\* The environment of the process.  config is the set of settings present
\* in os.environ.  The upstream API and the credential provider are opaque:
\* "any" lets each request be answered in any way; "fixed" is a peer whose
\* state does not change, the upstream answering `answer` to a request that
\* carries a token in `valid` and `reject` to any other, the provider
\* answering `grant` every time.
World(config, upstream, valid, answer, reject, provider, grant) ==
    [config |-> config, upstream |-> upstream, valid |-> valid,
     answer |-> answer, reject |-> reject,
     provider |-> provider, grant |-> grant]

Unauthorized == [kind |-> "http", status |-> 401, body |-> ""]

AnyWorld ==
    World(Settings, "any", {}, Unauthorized, Unauthorized,
          "any", [kind |-> "transport", token |-> None])

\* The answers the upstream can give to the request task t is about to send
\* (requests.request, lines 228 and 244).
UpstreamAnswers(t) ==
    IF world.upstream = "any"
    THEN UpstreamOutcomes
    ELSE {IF headers[t]["Authorization"] \in {Bearer(tk) : tk \in world.valid}
          THEN world.answer ELSE world.reject}

\* The answers the credential provider can give (requests.get, line 44).
ProviderAnswers ==
    IF world.provider = "any" THEN ProviderOutcomes ELSE {world.grant}

Init ==
    /\ cache = None
    /\ providerCalls = 0
    /\ started = 0
    /\ callLog = <<>>
    /\ pc = [t \in Tasks |-> "idle"]
    /\ cur = [t \in Tasks |-> NoRequest]
    /\ ctx = [t \in Tasks |-> "get"]
    /\ headers = [t \in Tasks |-> EmptyDict]
    /\ credentials = [t \in Tasks |-> None]
    /\ response = [t \in Tasks |-> NoResponse]
    /\ reqs = [t \in Tasks |-> <<>>]
    /\ prov = [t \in Tasks |-> <<>>]
    /\ clears = [t \in Tasks |-> 0]
    /\ env = [t \in Tasks |-> NoResult]
    /\ result = [t \in Tasks |-> NoResult]
    /\ world = AnyWorld
    /\ issued = {}
    /\ entry = [t \in Tasks |-> None]

\* Summary of a finished call for the call log: rq and pv are the upstream
\* requests and provider outcomes of the call.
Summary(t, r, rq, pv) ==
    [callerAuth |-> "Authorization" \in DOMAIN cur[t].headers,
     nprov |-> Len(pv),
     fetched |-> \E i \in 1..Len(pv) : pv[i].kind = "json" /\ Truthy(pv[i].token),
     n401 |-> Cardinality({i \in 1..Len(rq) : rq[i].status = 401})]

\* make_api_request returns (or raises) `r`: the catalog function shapes its
\* own result from it and the call is over.
Finish(t, r, rq, pv) ==
    /\ env' = [env EXCEPT ![t] = r]
    /\ result' = [result EXCEPT ![t] = ToolResult(ToolByName(cur[t].tool), r)]
    /\ callLog' = Append(callLog,
                         Summary(t, ToolResult(ToolByName(cur[t].tool), r), rq, pv))
    /\ pc' = [pc EXCEPT ![t] = "done"]

\* Mutant of TokenFailure: no try/except around the token calls, the
\* exception leaves make_api_request.
TokenFailureUncaught(t, detail, pv) ==
    Finish(t, Raised(detail), reqs[t], pv)

\* get_access_token / refresh_access_token raised `detail`: line 219-225
\* when called from line 215, line 253-259 when called from line 241.
TokenFailure(t, detail, pv) ==
    IF ctx[t] = "get"
    THEN Finish(t, APIResponse(FALSE, 0, NoneData,
                     ErrorText("Failed to get access token", 0, detail)),
                reqs[t], pv)
    ELSE Finish(t, APIResponse(FALSE, 401, NoneData,
                     ErrorText("Failed to refresh access token", 0, detail)),
                reqs[t], pv)

\* ----------------------------------------------------------------- actions
\* A catalog function is called with arguments a: it builds params,
\* json_data and headers and enters make_api_request; line 213 decides
\* whether a token is fetched.
ToolInvoke(t, tool, a) ==
    /\ pc[t] \in {"idle", "done"}
    /\ started < MaxCalls
    /\ started' = started + 1
    /\ cur' = [cur EXCEPT ![t] = Request(tool, a)]
    /\ headers' = [headers EXCEPT ![t] = Request(tool, a).headers]
    /\ ctx' = [ctx EXCEPT ![t] = "get"]
    /\ credentials' = [credentials EXCEPT ![t] = None]
    /\ response' = [response EXCEPT ![t] = NoResponse]
    /\ reqs' = [reqs EXCEPT ![t] = <<>>]
    /\ prov' = [prov EXCEPT ![t] = <<>>]
    /\ clears' = [clears EXCEPT ![t] = 0]
    /\ env' = [env EXCEPT ![t] = NoResult]
    /\ result' = [result EXCEPT ![t] = NoResult]
    /\ pc' = [pc EXCEPT ![t] =
                IF "Authorization" \in DOMAIN Request(tool, a).headers
                THEN "mar_228" ELSE "gat_53"]
    /\ entry' = [entry EXCEPT ![t] = None]
    /\ UNCHANGED <<cache, providerCalls, callLog, world, issued>>

\* Mutant of get_access_token_53: the cache is never consulted, every call
\* fetches.
get_access_token_53_uncached(t) ==
    /\ pc[t] = "gat_53"
    /\ pc' = [pc EXCEPT ![t] = "gcc_44"]
    /\ entry' = [entry EXCEPT ![t] = IF ctx[t] = "get" THEN cache ELSE @]
    /\ UNCHANGED <<cache, providerCalls, started, callLog, cur, ctx, headers,
                   credentials, response, reqs, prov, clears, env, result,
                   world, issued>>

\* get_access_token, line 53: `if _cached_access_token is None`
get_access_token_53(t) ==
    /\ pc[t] = "gat_53"
    /\ pc' = [pc EXCEPT ![t] = IF cache = None THEN "gcc_44" ELSE "gat_60"]
    /\ entry' = [entry EXCEPT ![t] = IF ctx[t] = "get" THEN cache ELSE @]
    /\ UNCHANGED <<cache, providerCalls, started, callLog, cur, ctx, headers,
                   credentials, response, reqs, prov, clears, env, result,
                   world, issued>>

\* get_connection_credentials, lines 32-47.  No setting is checked: a
\* missing one is formatted as "None" into the URL, the query or the header.
\* Without NANGO_BASE_URL the URL is "None/connection/<id>", which
\* requests.get refuses (MissingSchema) before anything is sent; in every
\* other case one request goes to the credential provider, which raises,
\* never answers, or returns the JSON whose token field line 55 extracts.
get_connection_credentials(t) ==
    /\ pc[t] = "gcc_44"
    /\ IF "NANGO_BASE_URL" \notin world.config
       THEN /\ TokenFailure(t, "MissingSchema", prov[t])
            /\ UNCHANGED <<providerCalls, prov, credentials, issued>>
       ELSE /\ providerCalls' = providerCalls + 1
            /\ \E o \in ProviderAnswers :
                 /\ prov' = [prov EXCEPT ![t] = Append(@, o)]
                 /\ CASE o.kind = "json" ->
                           /\ credentials' = [credentials EXCEPT ![t] = o.token]
                           /\ issued' = IF o.token = None THEN issued
                                        ELSE issued \cup {o.token}
                           /\ pc' = [pc EXCEPT ![t] = "gat_55"]
                           /\ UNCHANGED <<env, result, callLog>>
                      [] o.kind = "no_response" ->
                           /\ pc' = [pc EXCEPT ![t] = "gcc_44_waiting"]
                           /\ UNCHANGED <<env, result, callLog, credentials,
                                          issued>>
                      [] OTHER ->
                           /\ TokenFailure(t, o.kind, Append(prov[t], o))
                           /\ UNCHANGED <<credentials, issued>>
    /\ UNCHANGED <<cache, started, cur, ctx, headers, response, reqs, clears,
                   world, entry>>

\* Mutant of get_access_token_55: the header text, not the token, is stored.
get_access_token_55_header(t) ==
    /\ pc[t] = "gat_55"
    /\ cache' = Bearer(credentials[t])
    /\ pc' = [pc EXCEPT ![t] = "gat_57"]
    /\ UNCHANGED <<providerCalls, started, callLog, cur, ctx, headers,
                   credentials, response, reqs, prov, clears, env, result,
                   world, issued, entry>>

\* get_access_token, line 55: the extracted value is stored in the cache
\* before it is tested.
get_access_token_55(t) ==
    /\ pc[t] = "gat_55"
    /\ cache' = credentials[t]
    /\ pc' = [pc EXCEPT ![t] = "gat_57"]
    /\ UNCHANGED <<providerCalls, started, callLog, cur, ctx, headers,
                   credentials, response, reqs, prov, clears, env, result,
                   world, issued, entry>>

\* Mutant of get_access_token_57: the fetched value is returned untested.
get_access_token_57_untested(t) ==
    /\ pc[t] = "gat_57"
    /\ pc' = [pc EXCEPT ![t] = "gat_60"]
    /\ UNCHANGED <<env, result, callLog>>
    /\ UNCHANGED <<cache, providerCalls, started, cur, ctx, headers,
                   credentials, response, reqs, prov, clears,
                   world, issued, entry>>

\* get_access_token, line 57-58: `if not _cached_access_token: raise`
get_access_token_57(t) ==
    /\ pc[t] = "gat_57"
    /\ IF Truthy(cache)
       THEN /\ pc' = [pc EXCEPT ![t] = "gat_60"]
            /\ UNCHANGED <<env, result, callLog>>
       ELSE TokenFailure(t, "No access token found in Nango credentials", prov[t])
    /\ UNCHANGED <<cache, providerCalls, started, cur, ctx, headers,
                   credentials, response, reqs, prov, clears,
                   world, issued, entry>>

\* Mutant of get_access_token_60: after a refresh the header is not rebuilt
\* (line 242 missing), the reissued request carries the old one.
get_access_token_60_header_kept(t) ==
    /\ pc[t] = "gat_60"
    /\ headers' = [headers EXCEPT ![t] =
                     IF ctx[t] = "get"
                     THEN DictSet(@, "Authorization", Bearer(cache)) ELSE @]
    /\ pc' = [pc EXCEPT ![t] = IF ctx[t] = "get" THEN "mar_228" ELSE "mar_244"]
    /\ UNCHANGED <<cache, providerCalls, started, callLog, cur, ctx,
                   credentials, response, reqs, prov, clears, env, result,
                   world, issued, entry>>

\* get_access_token, line 60: `return _cached_access_token`, and the caller
\* writes the Authorization header (line 218, or line 242 after a refresh).
get_access_token_60(t) ==
    /\ pc[t] = "gat_60"
    /\ headers' = [headers EXCEPT ![t] = DictSet(@, "Authorization", Bearer(cache))]
    /\ pc' = [pc EXCEPT ![t] = IF ctx[t] = "get" THEN "mar_228" ELSE "mar_244"]
    /\ UNCHANGED <<cache, providerCalls, started, callLog, cur, ctx,
                   credentials, response, reqs, prov, clears, env, result,
                   world, issued, entry>>

\* The record of one upstream request: the Authorization header it carried
\* and how it ended.
Sent(t, o) ==
    [auth |-> headers[t]["Authorization"], kind |-> o.kind, status |-> o.status]

\* Mutant of Retries: every error status is retried, not 401 alone.
RetriesAnyError(o) == o.status >= 400 /\ retry_auth

\* Line 239: `response.status_code == 401 and retry_auth`
Retries(o) == o.status = 401 /\ retry_auth

\* make_api_request, lines 228-239 and 274-280: the first upstream request.
\* The body of a response that is retried is never read (line 244 rebinds
\* response, lines 253-259 return without it), so it is not kept.
make_api_request_228(t) ==
    /\ pc[t] = "mar_228"
    /\ \E o \in UpstreamAnswers(t) :
         /\ reqs' = [reqs EXCEPT ![t] = Append(@, Sent(t, o))]
         /\ IF o.kind = "transport"
            THEN /\ Finish(t, APIResponse(FALSE, 0, NoneData,
                                 ErrorText("", 0, "ConnectionError")),
                           Append(reqs[t], Sent(t, o)), prov[t])
                 /\ UNCHANGED <<response, ctx>>
            ELSE /\ IF Retries(o)
                    THEN /\ response' = [response EXCEPT ![t] = [o EXCEPT !.body = ""]]
                         /\ pc' = [pc EXCEPT ![t] = "rat_65"]
                         /\ ctx' = [ctx EXCEPT ![t] = "refresh"]
                    ELSE /\ response' = [response EXCEPT ![t] = o]
                         /\ pc' = [pc EXCEPT ![t] = "mar_261"]
                         /\ UNCHANGED ctx
                 /\ UNCHANGED <<env, result, callLog>>
    /\ UNCHANGED <<cache, providerCalls, started, cur, headers, credentials,
                   prov, clears, world, issued, entry>>

\* refresh_access_token, line 65: the cache is cleared, then get_access_token.
refresh_access_token(t) ==
    /\ pc[t] = "rat_65"
    /\ cache' = None
    /\ clears' = [clears EXCEPT ![t] = @ + 1]
    /\ pc' = [pc EXCEPT ![t] = "gat_53"]
    /\ UNCHANGED <<providerCalls, started, callLog, cur, ctx, headers,
                   credentials, response, reqs, prov, env, result,
                   world, issued, entry>>

\* Mutant of make_api_request_244: the token is refreshed but the request is
\* not reissued, the rejected response is the one that is normalized.
make_api_request_244_not_reissued(t) ==
    /\ pc[t] = "mar_244"
    /\ pc' = [pc EXCEPT ![t] = "mar_261"]
    /\ UNCHANGED <<cache, providerCalls, started, callLog, cur, ctx, headers,
                   credentials, response, reqs, prov, clears, env, result,
                   world, issued, entry>>

\* make_api_request, lines 244-259: the request reissued after the refresh;
\* it sits inside the try whose handler is `except Exception` (line 253).
make_api_request_244(t) ==
    /\ pc[t] = "mar_244"
    /\ \E o \in UpstreamAnswers(t) :
         /\ reqs' = [reqs EXCEPT ![t] = Append(@, Sent(t, o))]
         /\ IF o.kind = "transport"
            THEN /\ Finish(t, APIResponse(FALSE, 401, NoneData,
                                 ErrorText("Failed to refresh access token", 0,
                                           "ConnectionError")),
                           Append(reqs[t], Sent(t, o)), prov[t])
                 /\ UNCHANGED response
            ELSE /\ response' = [response EXCEPT ![t] = o]
                 /\ pc' = [pc EXCEPT ![t] = "mar_261"]
                 /\ UNCHANGED <<env, result, callLog>>
    /\ UNCHANGED <<cache, providerCalls, started, cur, ctx, headers,
                   credentials, prov, clears, world, issued, entry>>

\* make_api_request, lines 261-273: the final response becomes the Envelope.
make_api_request_261(t) ==
    /\ pc[t] = "mar_261"
    /\ Finish(t, Normalize(response[t].status, response[t].body), reqs[t], prov[t])
    /\ UNCHANGED <<cache, providerCalls, started, cur, ctx, headers,
                   credentials, response, reqs, prov, clears,
                   world, issued, entry>>

\* Everything a call does after the catalog function has entered
\* make_api_request.
Step(t) ==
    \/ get_access_token_53(t)
    \/ get_connection_credentials(t)
    \/ get_access_token_55(t)
    \/ get_access_token_57(t)
    \/ get_access_token_60(t)
    \/ make_api_request_228(t)
    \/ refresh_access_token(t)
    \/ make_api_request_244(t)
    \/ make_api_request_261(t)

\* The callers the dispatcher is exercised through: one catalog function of
\* each result shape, and one that supplies its own Authorization header.
DispatchTools ==
    {files_get, files_list, operations_get, files_watch, files_update_2}

\* One task makes up to MaxCalls calls one after the other, from the empty
\* cache the module starts with (line 27).
Next ==
    \E t \in SeqTasks :
        \/ \E tool \in DispatchTools : ToolInvoke(t, tool, DefaultArgs(tool))
        \/ Step(t)

Spec == Init /\ [][Next]_vars

\* Every catalog function, one call per behaviour, started with the cache in
\* any state earlier calls can leave it in.
InitTools ==
    /\ cache \in Tokens \cup {None, ""}
    /\ providerCalls = 0
    /\ started = 0
    /\ callLog = <<>>
    /\ pc = [t \in Tasks |-> "idle"]
    /\ cur = [t \in Tasks |-> NoRequest]
    /\ ctx = [t \in Tasks |-> "get"]
    /\ headers = [t \in Tasks |-> EmptyDict]
    /\ credentials = [t \in Tasks |-> None]
    /\ response = [t \in Tasks |-> NoResponse]
    /\ reqs = [t \in Tasks |-> <<>>]
    /\ prov = [t \in Tasks |-> <<>>]
    /\ clears = [t \in Tasks |-> 0]
    /\ env = [t \in Tasks |-> NoResult]
    /\ result = [t \in Tasks |-> NoResult]
    /\ world = AnyWorld
    /\ issued = IF cache = None THEN {} ELSE {cache}
    /\ entry = [t \in Tasks |-> None]

NextTools ==
    \E t \in SeqTasks :
        \/ \E tool \in Catalog : started = 0 /\ ToolInvoke(t, tool, DefaultArgs(tool))
        \/ Step(t)

SpecTools == InitTools /\ [][NextTools]_vars

\* The catalog functions alone, over every assignment of their optional
\* arguments: each behaviour is one call up to the point where the request
\* is handed to make_api_request.
NextCatalog ==
    /\ pc[1] = "idle"
    /\ \E tool \in Catalog : \E a \in ArgSets(tool) : ToolInvoke(1, tool, a)

SpecCatalog == Init /\ [][NextCatalog]_vars

\* An upstream answer to an accepted request: 200 with an empty JSON object.
Accepted == [kind |-> "http", status |-> 200, body |-> "{}"]

\* Every task is one tool invocation running at the same time as the others:
\* their steps interleave at each access to the module-level cache.  The
\* upstream accepts the tokens in `valid` and answers 401 to any other, the
\* credential provider answers in any way.
InitConc ==
    /\ cache = None
    /\ providerCalls = 0
    /\ started = 0
    /\ callLog = <<>>
    /\ pc = [t \in Tasks |-> "idle"]
    /\ cur = [t \in Tasks |-> NoRequest]
    /\ ctx = [t \in Tasks |-> "get"]
    /\ headers = [t \in Tasks |-> EmptyDict]
    /\ credentials = [t \in Tasks |-> None]
    /\ response = [t \in Tasks |-> NoResponse]
    /\ reqs = [t \in Tasks |-> <<>>]
    /\ prov = [t \in Tasks |-> <<>>]
    /\ clears = [t \in Tasks |-> 0]
    /\ env = [t \in Tasks |-> NoResult]
    /\ result = [t \in Tasks |-> NoResult]
    /\ \E valid \in SUBSET Tokens :
         world = World(Settings, "fixed", valid, Accepted, Unauthorized,
                       "any", [kind |-> "transport", token |-> None])
    /\ issued = {}
    /\ entry = [t \in Tasks |-> None]

NextConc ==
    \E t \in Tasks :
        \/ pc[t] = "idle" /\ ToolInvoke(t, files_get, DefaultArgs(files_get))
        \/ Step(t)

SpecConc == InitConc /\ [][NextConc]_vars

\* The process started with any subset of the four provider settings in its
\* environment; one task, sequential calls, one that needs a token and one
\* that brings its own.  The upstream accepts every token.
InitConfig ==
    /\ cache = None
    /\ providerCalls = 0
    /\ started = 0
    /\ callLog = <<>>
    /\ pc = [t \in Tasks |-> "idle"]
    /\ cur = [t \in Tasks |-> NoRequest]
    /\ ctx = [t \in Tasks |-> "get"]
    /\ headers = [t \in Tasks |-> EmptyDict]
    /\ credentials = [t \in Tasks |-> None]
    /\ response = [t \in Tasks |-> NoResponse]
    /\ reqs = [t \in Tasks |-> <<>>]
    /\ prov = [t \in Tasks |-> <<>>]
    /\ clears = [t \in Tasks |-> 0]
    /\ env = [t \in Tasks |-> NoResult]
    /\ result = [t \in Tasks |-> NoResult]
    /\ \E config \in SUBSET Settings :
         world = World(config, "fixed", Tokens \cup {"callerTok"}, Accepted,
                       Unauthorized, "any", [kind |-> "transport", token |-> None])
    /\ issued = {}
    /\ entry = [t \in Tasks |-> None]

NextConfig ==
    \E t \in SeqTasks :
        \/ \E tool \in {files_get, files_update_2} :
             ToolInvoke(t, tool, DefaultArgs(tool))
        \/ Step(t)

SpecConfig == InitConfig /\ [][NextConfig]_vars

\* The same read-only call, files_get with a fixed file_id, repeated against
\* an upstream whose state does not change: it answers `answer` to every
\* request that carries a token it accepts and `reject` (a 401) to any other.
\* The cache starts in any state, the credential provider either answers in
\* any way or gives the same answer every time.  The calls follow one
\* another, never overlapping; they alternate between the tasks so that the
\* Envelope of the previous call is still there when the next one returns.
IdemAnswers ==
    {[kind |-> "http", status |-> 200, body |-> "{id:abc123,name:report.pdf}"],
     [kind |-> "http", status |-> 200, body |-> ""],
     [kind |-> "http", status |-> 200, body |-> "[1,2]"],
     [kind |-> "http", status |-> 500, body |-> "<html>"],
     [kind |-> "transport", status |-> 0, body |-> ""]}

IdemRejects ==
    {[kind |-> "http", status |-> 401, body |-> b] : b \in {"", "<html>"}}

InitIdem ==
    /\ cache \in Tokens \cup {None, ""}
    /\ providerCalls = 0
    /\ started = 0
    /\ callLog = <<>>
    /\ pc = [t \in Tasks |-> "idle"]
    /\ cur = [t \in Tasks |-> NoRequest]
    /\ ctx = [t \in Tasks |-> "get"]
    /\ headers = [t \in Tasks |-> EmptyDict]
    /\ credentials = [t \in Tasks |-> None]
    /\ response = [t \in Tasks |-> NoResponse]
    /\ reqs = [t \in Tasks |-> <<>>]
    /\ prov = [t \in Tasks |-> <<>>]
    /\ clears = [t \in Tasks |-> 0]
    /\ env = [t \in Tasks |-> NoResult]
    /\ result = [t \in Tasks |-> NoResult]
    /\ \E valid \in SUBSET Tokens, answer \in IdemAnswers,
          reject \in IdemRejects :
         \/ world = World(Settings, "fixed", valid, answer, reject,
                          "any", [kind |-> "transport", token |-> None])
         \/ \E grant \in ProviderOutcomes :
              world = World(Settings, "fixed", valid, answer, reject,
                            "fixed", grant)
    /\ issued = IF cache = None THEN {} ELSE {cache}
    /\ entry = [t \in Tasks |-> None]

NextIdem ==
    \E t \in Tasks :
        \/ /\ \A u \in Tasks : pc[u] \in {"idle", "done"}
           /\ ToolInvoke(t, files_get, DefaultArgs(files_get))
        \/ Step(t)

SpecIdem == InitIdem /\ [][NextIdem]_vars

\* ------------------------------------------------------------------ claims
Done(t) == pc[t] = "done"

Last(s) == s[Len(s)]

\* The provider answered with a usable token.
GoodFetch(o) == o.kind = "json" /\ Truthy(o.token)

\* The refresh that follows a 401 returned a token: the call cleared the
\* cache and its latest provider answer carries a usable token.
RefreshSucceeded(t) ==
    /\ clears[t] = 1
    /\ Len(reqs[t]) >= 1
    /\ Len(prov[t]) >= 1
    /\ GoodFetch(Last(prov[t]))
    /\ pc[t] \in {"mar_244", "mar_261", "done"}

\* C1: a finished call whose first response was 401 and whose refresh
\* succeeded has issued exactly two upstream requests, and it returns the
\* Envelope of the second response: success, status 200 and the parsed body
\* when the second response is 200, failure with status 401 when it is 401.
C1_SingleRetryReflectsSecond ==
    \A t \in Tasks :
        (Done(t) /\ RefreshSucceeded(t) /\ reqs[t][1].status = 401) =>
            /\ Len(reqs[t]) = 2
            /\ (reqs[t][2].status = 200 =>
                   /\ env[t].kind = "envelope"
                   /\ env[t].success
                   /\ env[t].status_code = 200
                   /\ env[t].data =
                        (IF response[t].body = "" THEN NoneData
                         ELSE IF ParseJson(response[t].body).type = "invalid"
                         THEN ContentWrapper(response[t].body)
                         ELSE ParseJson(response[t].body)))
            /\ (reqs[t][2].status = 401 =>
                   /\ env[t].kind = "envelope"
                   /\ ~env[t].success
                   /\ env[t].status_code = 401)

\* C2: a call issues at most two upstream requests and refreshes at most
\* once; a second request follows only a first response of 401, and a
\* finished call whose first response was not 401 has issued one request.
C2_AtMostOneRetry ==
    \A t \in Tasks :
        /\ Len(reqs[t]) <= 2
        /\ clears[t] <= 1
        /\ Len(prov[t]) <= 2
        /\ (Len(reqs[t]) = 2 =>
               reqs[t][1].kind = "http" /\ reqs[t][1].status = 401)
        /\ (clears[t] = 1 =>
               Len(reqs[t]) >= 1 /\ reqs[t][1].status = 401)
        /\ ((Done(t) /\ Len(reqs[t]) >= 1 /\ reqs[t][1].status # 401) =>
               Len(reqs[t]) = 1 /\ clears[t] = 0)

\* C2 witness: a finished call that retried once and got 401 again.
C2_Witness ==
    \E t \in Tasks :
        /\ Done(t)
        /\ Len(reqs[t]) = 2
        /\ reqs[t][2].status = 401
        /\ clears[t] = 1

\* C3: every finished make_api_request call has returned an Envelope; no
\* exception leaves it, whatever the status, body or transport outcome.
C3_AlwaysEnvelope ==
    \A t \in Tasks : Done(t) => env[t].kind = "envelope"

\* C4: every returned Envelope has success => (no error and a 2xx status)
\* and ~success => error present.
C4_EnvelopeInvariant ==
    \A t \in Tasks :
        env[t].kind = "envelope" =>
            /\ (env[t].success =>
                   /\ ~env[t].error.present
                   /\ 200 <= env[t].status_code
                   /\ env[t].status_code <= 299)
            /\ (~env[t].success => env[t].error.present)

\* C5: an upstream request that fails at the network level, first or
\* reissued, is the last request of its call, and the call returns
\* success=false, status_code=0, data=null and the transport error text.
C5_TransportFailure ==
    \A t \in Tasks :
        \A i \in 1..Len(reqs[t]) :
            reqs[t][i].kind = "transport" =>
                /\ i = Len(reqs[t])
                /\ Done(t)
                /\ env[t] = APIResponse(FALSE, 0, NoneData,
                                        ErrorText("", 0, "ConnectionError"))

\* C6 as stated: two sequential calls from the empty cache, neither seeing a
\* 401, trigger exactly one provider call in total.
C6_ExactlyOneProviderCall ==
    (/\ Len(callLog) >= 2
     /\ callLog[1].n401 = 0
     /\ callLog[2].n401 = 0)
        => callLog[1].nprov + callLog[2].nprov = 1

\* C6 amended: two sequential calls from the empty cache, neither supplying
\* its own Authorization header and neither seeing a 401, trigger exactly
\* one provider call in total when the fetch of the first call yields a
\* token: the second call reuses the token cached by the first.
C6_CacheReuse ==
    (/\ Len(callLog) >= 2
     /\ callLog[1].n401 = 0
     /\ callLog[2].n401 = 0
     /\ ~callLog[1].callerAuth
     /\ ~callLog[2].callerAuth
     /\ callLog[1].fetched)
        => /\ callLog[1].nprov = 1
           /\ callLog[2].nprov = 0

\* C6 witness: two finished calls without 401, the first of which fetched
\* the token, the second of which sent an upstream request with it.
C6_Witness ==
    /\ Len(callLog) = 2
    /\ callLog[1].n401 = 0
    /\ callLog[2].n401 = 0
    /\ ~callLog[1].callerAuth
    /\ ~callLog[2].callerAuth
    /\ callLog[1].fetched
    /\ providerCalls = 1
    /\ Done(1)
    /\ Len(reqs[1]) = 1
    /\ reqs[1][1].status = 200

\* get_access_token raised before the first request: the only provider
\* answer of the call is an error or carries no usable token.
GetFailed(t) ==
    /\ Done(t)
    /\ clears[t] = 0
    /\ Len(prov[t]) = 1
    /\ ~GoodFetch(prov[t][1])

\* refresh_access_token raised after a 401.
RefreshFailed(t) ==
    /\ Done(t)
    /\ clears[t] = 1
    /\ Len(prov[t]) >= 1
    /\ ~GoodFetch(Last(prov[t]))

\* C7: when the token cannot be obtained before the first request the call
\* returns success=false, status_code=0 without any upstream request; when
\* the refresh after a 401 fails it returns success=false, status_code=401
\* without a second request; an Envelope is returned in both cases.
C7_TokenFailureEnvelope ==
    \A t \in Tasks :
        /\ GetFailed(t) =>
              /\ env[t].kind = "envelope"
              /\ ~env[t].success
              /\ env[t].status_code = 0
              /\ env[t].error.present
              /\ Len(reqs[t]) = 0
        /\ RefreshFailed(t) =>
              /\ env[t].kind = "envelope"
              /\ ~env[t].success
              /\ env[t].status_code = 401
              /\ env[t].error.present
              /\ Len(reqs[t]) = 1

\* C7 witness: a call whose refresh after a 401 failed, in a behaviour whose
\* first call failed to get a token at all.
C7_Witness ==
    \E t \in Tasks :
        /\ RefreshFailed(t)
        /\ Len(callLog) = 2
        /\ callLog[1].nprov = 1
        /\ ~callLog[1].fetched
        /\ ~callLog[1].callerAuth

\* C8: an optional argument left unset is in neither the query mapping nor
\* the JSON body handed to make_api_request.
C8_UnsetOmitted ==
    \A t \in Tasks :
        cur[t].tool # "" =>
            \A n \in DOMAIN cur[t].args :
                cur[t].args[n] = None =>
                    /\ OptOf(ToolByName(cur[t].tool), n).key \notin DOMAIN cur[t].params
                    /\ OptOf(ToolByName(cur[t].tool), n).key \notin DOMAIN cur[t].json

\* C8 witness: permissions_create with only role, type and email_address
\* sends the body {role, type, emailAddress} and an empty query.
C8_Witness ==
    /\ cur[1].tool = "permissions_create"
    /\ cur[1].args["email_address"] = "a"
    /\ \A n \in DOMAIN cur[1].args : n # "email_address" => cur[1].args[n] = None
    /\ DOMAIN cur[1].json = {"role", "type", "emailAddress"}
    /\ cur[1].json["emailAddress"] = "a"
    /\ DOMAIN cur[1].params = {}

\* C9: a list-returning catalog function whose make_api_request call came
\* back with success=false, or with null or empty data, returns the empty
\* wrapper: no items, no continuation token, no exception.
C9_ListWrapperDefault ==
    \A t \in Tasks :
        (/\ Done(t)
         /\ ToolByName(cur[t].tool) \in ListTools
         /\ env[t].kind = "envelope"
         /\ \/ ~env[t].success
            \/ env[t].data.type = "None"
            \/ env[t].data.empty)
            => /\ result[t].kind = "wrapper"
               /\ result[t].items = <<>>
               /\ result[t].next = None

\* C9 witness: files_list against an upstream answering 500 with a body.
C9_Witness ==
    \E t \in Tasks :
        /\ Done(t)
        /\ cur[t].tool = "files_list"
        /\ env[t].kind = "envelope"
        /\ env[t].status_code = 500
        /\ env[t].data.hasItems
        /\ result[t] = EmptyWrapper

\* C10: every finished tool call has returned a structured result, an
\* Envelope or a typed wrapper; none has raised.
C10_ToolNeverRaises ==
    \A t \in Tasks : Done(t) => result[t].kind \in {"envelope", "wrapper", "operation"}

\* C11: under any interleaving of concurrent calls the cache is never
\* corrupted: in every reachable state it is None or a value that a
\* completed credential provider call returned as access_token (the empty
\* string included when the provider returned it, see C20); and there is no
\* single-flight: every task that found the cache empty at line 53 has made
\* its own provider call once it is past line 44, and no task makes more
\* than one provider call per token function call, so N concurrent misses
\* cause up to N provider calls.
CallerAuth(t) == "Authorization" \in DOMAIN cur[t].headers

MissedGet(t) ==
    /\ ~CallerAuth(t)
    /\ clears[t] = 0
    /\ entry[t] = None
    /\ pc[t] \notin {"idle", "gat_53", "gcc_44"}

C11_CacheFromProvider ==
    /\ cache = None \/ cache \in issued
    /\ \A t \in Tasks : Len(prov[t]) <= clears[t] + 1
    /\ \A t \in Tasks : MissedGet(t) => Len(prov[t]) = 1

\* Two concurrent misses of the empty cache, two provider calls, and the
\* cache holds the token one of them fetched.
C11_Witness ==
    /\ \A t \in Tasks : MissedGet(t) /\ GoodFetch(prov[t][1])
    /\ providerCalls = 2
    /\ prov[1][1].token # prov[2][1].token
    /\ cache \in Tokens

\* C12: configuration fail-fast.  If any of the four provider settings is
\* absent, a token fetch fails before any request is sent to the credential
\* provider, and the call that needed the token returns a failure Envelope
\* (a call that brings its own Authorization header is not affected).
C12_ConfigFailFast ==
    world.config # Settings =>
        /\ providerCalls = 0
        /\ \A t \in SeqTasks :
             Done(t) /\ ~CallerAuth(t) =>
                 env[t].kind = "envelope" /\ ~env[t].success

\* C13: every make_api_request call eventually returns: each outbound HTTP
\* call, to the upstream and to the credential provider, is bounded by a
\* timeout, so a call that has started and has not returned can always take
\* its next step, whatever the remote peer does.
C13_NeverBlocked ==
    \A t \in SeqTasks : pc[t] \notin {"idle", "done"} => ENABLED Step(t)

\* C14 as stated: repeating files_get with the same file_id against an
\* upstream whose state and answers do not change gives the same Envelope
\* data on every call, whatever the cache held when each call started.
C14_IdempotentRead ==
    \A t, u \in Tasks :
        Done(t) /\ Done(u) =>
            env[t].kind = env[u].kind /\ env[t].data = env[u].data

\* C14, amended: the same holds when the credential provider's answers do
\* not change either.
C14_IdempotentReadFixedProvider ==
    world.provider = "fixed" => C14_IdempotentRead

\* Two calls that returned the same upstream data although the first found
\* a rejected token in the cache and refreshed it, and the second used the
\* cache.
C14_Witness ==
    /\ world.provider = "fixed"
    /\ Done(1) /\ Done(2)
    /\ clears[1] = 1 /\ Len(prov[1]) = 1
    /\ Len(prov[2]) = 0 /\ clears[2] = 0
    /\ env[1].kind = "envelope" /\ env[1].data = env[2].data
    /\ env[1].data.type = "dict"

\* C15, amended: when the caller supplies no Authorization header, the first
\* upstream request carries the token get_access_token returned (the cached
\* one when the cache held a value, else the one just fetched), and the
\* request reissued after a 401 carries the token refresh_access_token
\* returned, which is the one fetched after the rejection.
C15_BearerFromTokenFunctions ==
    \A t \in SeqTasks :
        ~CallerAuth(t) =>
            /\ Len(reqs[t]) = 1 /\ clears[t] = 0 =>
                   /\ reqs[t][1].auth = Bearer(cache)
                   /\ entry[t] # None => cache = entry[t] /\ Len(prov[t]) = 0
                   /\ entry[t] = None =>
                          /\ Len(prov[t]) = 1
                          /\ GoodFetch(prov[t][1])
                          /\ cache = prov[t][1].token
            /\ Len(reqs[t]) = 2 =>
                   /\ clears[t] = 1
                   /\ reqs[t][1].status = 401
                   /\ GoodFetch(Last(prov[t]))
                   /\ reqs[t][2].auth = Bearer(Last(prov[t]).token)
            /\ Len(reqs[t]) <= 2

\* C15 as stated: in addition the reissued request never carries the header
\* that was just rejected.
C15_NeverRejectedHeader ==
    /\ C15_BearerFromTokenFunctions
    /\ \A t \in SeqTasks :
         ~CallerAuth(t) /\ Len(reqs[t]) = 2 =>
             reqs[t][2].auth # reqs[t][1].auth

\* A call answered 401 on a cached token and reissued with a different,
\* freshly fetched one.
C15_Witness ==
    /\ Done(1)
    /\ ~CallerAuth(1)
    /\ Len(reqs[1]) = 2
    /\ Len(prov[1]) = 1
    /\ entry[1] \in Tokens
    /\ reqs[1][1].auth = Bearer(entry[1])
    /\ reqs[1][2].auth # reqs[1][1].auth

\* C16: get_access_token as called at line 215.  If the cache held a value
\* it returns that value, makes no provider call and leaves the cache as it
\* was.  If the cache was absent it makes exactly one provider call; when the
\* answer contains an access token, that token is cached and returned; when
\* the provider call fails or the token field is missing, it raises and no
\* token is returned (no header is written, no upstream request is made).
\* An answer whose access_token is the empty string is the subject of C20.
InFirstGet(t) ==
    /\ ~CallerAuth(t)
    /\ clears[t] = 0
    /\ pc[t] \notin {"idle", "gat_53"}

GetReturned(t) == InFirstGet(t) /\ pc[t] = "mar_228"

FetchFails(o) ==
    \/ o.kind \in {"transport", "http_error"}
    \/ o.kind = "json" /\ o.token = None

C16_GetAccessToken ==
    \A t \in SeqTasks :
        /\ InFirstGet(t) /\ entry[t] # None =>
               /\ Len(prov[t]) = 0
               /\ cache = entry[t]
               /\ pc[t] # "gat_60" => headers[t]["Authorization"] = Bearer(entry[t])
        /\ InFirstGet(t) /\ entry[t] = None /\ pc[t] # "gcc_44" =>
               Len(prov[t]) = 1
        /\ GetReturned(t) /\ entry[t] = None =>
               /\ GoodFetch(prov[t][1])
               /\ cache = prov[t][1].token
               /\ headers[t]["Authorization"] = Bearer(prov[t][1].token)
        /\ InFirstGet(t) /\ Len(prov[t]) = 1 /\ FetchFails(prov[t][1]) =>
               /\ pc[t] \in {"gat_55", "gat_57", "done"}
               /\ "Authorization" \notin DOMAIN headers[t]
               /\ Len(reqs[t]) = 0
               /\ Done(t) => env[t].error.prefix = "Failed to get access token"

\* A second call whose get_access_token returned the token the first call
\* had cached, without a provider call.
C16_Witness ==
    /\ GetReturned(1)
    /\ entry[1] \in Tokens
    /\ Len(callLog) = 1
    /\ callLog[1].fetched
    /\ providerCalls = 1
    /\ headers[1]["Authorization"] = Bearer(cache)

\* C17: refresh_access_token clears the cache whatever it held and then
\* behaves as get_access_token: it makes exactly one provider call; when
\* that call yields a token the cache holds it and it is returned (the
\* reissued request carries it); when the refresh fails the cache is absent.
GetCalls(t) == IF CallerAuth(t) \/ entry[t] # None THEN 0 ELSE 1

C17_RefreshAccessToken ==
    \A t \in SeqTasks :
        /\ clears[t] = 1 /\ pc[t] \in {"gat_53", "gcc_44"} =>
               cache = None /\ Len(prov[t]) = GetCalls(t)
        /\ clears[t] = 1 /\ pc[t] \notin {"gat_53", "gcc_44"} =>
               Len(prov[t]) = GetCalls(t) + 1
        /\ clears[t] = 1 /\ pc[t] = "mar_244" =>
               /\ GoodFetch(Last(prov[t]))
               /\ cache = Last(prov[t]).token
               /\ headers[t]["Authorization"] = Bearer(cache)
        /\ RefreshFailed(t) => cache = None

\* C18: when make_api_request has received a final HTTP response (the first
\* one if it was not retried, else the reissued one), it returns an Envelope
\* whose status_code is the response's status, whose data is null for an
\* empty body, the parsed JSON if the body parses and the raw text under
\* "content" if not, and whose error is null on success and
\* "HTTP <code>: <reason>" otherwise; the body is in data for non-2xx too,
\* and a 200 with a non-JSON body gives success = true.
FinalResponse(t) ==
    /\ Done(t)
    /\ Len(reqs[t]) = clears[t] + 1
    /\ Last(reqs[t]).kind = "http"

C18_Normalization ==
    \A t \in SeqTasks :
        FinalResponse(t) =>
            LET status == response[t].status
                body == response[t].body
            IN  /\ env[t].kind = "envelope"
                /\ env[t].status_code = status
                /\ env[t].data =
                       IF body = "" THEN NoneData
                       ELSE IF ParseJson(body).type # "invalid"
                            THEN ParseJson(body)
                            ELSE ContentWrapper(body)
                /\ env[t].error =
                       IF env[t].success THEN NoError
                       ELSE ErrorText("HTTP", status, Reason(status))
                /\ status = 200 => env[t].success

\* C19: the request a catalog function hands to make_api_request contains
\* the key of an optional argument exactly when the caller supplied a value
\* other than None for it, the values False, 0 and "" included, and the key
\* carries that value.
C19_NonNullForwarded ==
    \A t \in Tasks :
        cur[t].tool # "" =>
            \A n \in DOMAIN cur[t].args :
                LET opt == OptOf(ToolByName(cur[t].tool), n)
                    sent == IF opt.dest = "params" THEN cur[t].params
                            ELSE cur[t].json
                IN  IF cur[t].args[n] = None
                    THEN opt.key \notin DOMAIN sent
                    ELSE /\ opt.key \in DOMAIN sent
                         /\ sent[opt.key] = cur[t].args[n]

\* C20: cache validity.  Whenever no token function is running, whatever
\* the provider answered before (access_token missing, null or empty
\* included), the cache is absent or holds a non-empty token; in particular
\* it is absent after a get_access_token call that failed, and
\* get_access_token never returns an empty value taken from the cache.
C20_CacheValid ==
    /\ (\A t \in SeqTasks : pc[t] \in {"idle", "done"}) =>
           cache = None \/ Truthy(cache)
    /\ \A t \in SeqTasks : GetFailed(t) => cache = None
    /\ \A t \in SeqTasks :
           GetReturned(t) => headers[t]["Authorization"] # Bearer("")

\* C21: caller-supplied credentials are preserved.  A call whose caller
\* passed headers containing Authorization makes no provider call, does not
\* write the cache (it neither clears it, line 65, nor stores into it, which
\* line 55 does only after a provider call), sends the caller's
\* Authorization value on every upstream request, after a 401 too, and
\* leaves the caller's headers mapping as it was passed.
C21_CallerCredentialsPreserved ==
    \A t \in SeqTasks :
        CallerAuth(t) =>
            /\ Len(prov[t]) = 0
            /\ clears[t] = 0
            /\ \A i \in 1..Len(reqs[t]) :
                 reqs[t][i].auth = cur[t].headers["Authorization"]
            /\ headers[t] = cur[t].headers

\* C22: under any interleaving of get_access_token with a concurrent
\* refresh_access_token of another task, a get_access_token call that
\* returns normally returns a token string, never the absent value: no
\* Authorization header is built from None and no upstream request is sent
\* with one.  The case is the one the claim names: every provider answer
\* so far carried an access_token, so the cache can only have become absent
\* through the clear of line 65.
OnlyRefreshClears ==
    \A u \in Tasks : \A j \in 1..Len(prov[u]) :
        prov[u][j].kind = "json" => prov[u][j].token # None

C22_NeverAbsentToken ==
    OnlyRefreshClears =>
        \A t \in Tasks :
            /\ "Authorization" \in DOMAIN headers[t] =>
                   headers[t]["Authorization"] # Bearer(None)
            /\ \A i \in 1..Len(reqs[t]) : reqs[t][i].auth # Bearer(None)

====
